---- MODULE Spec2Model ----
(***************************************************************************)
(* mind-brawl: the sensor ring buffers filled by the polling thread        *)
(* (src/src/data_stream.py), the blink detector                            *)
(* (src/src/signal_processing.py) and the Zen Archer game callback         *)
(* (src/src/callbacks.py, src/src/layout.py, src/src/config.py).           *)
(*                                                                         *)
(* Time is counted in units of 0.25 s: the refresh interval                *)
(* (UPDATE_INTERVAL_MS = 250) is 1 unit and the blink cooldown (0.75 s) is *)
(* 3 units, so every float the game compares is an exact multiple of the   *)
(* unit.  Sizes that the program sets in the hundreds (buffer capacities,  *)
(* window lengths, the per-shot timer, the number of shots) are scaled     *)
(* down; each scaled size says which source number it stands for.          *)
(***************************************************************************)
EXTENDS Integers, Sequences, FiniteSets, TLC

\* ------------------------------------------------------------------------
\* config.py, scaled
\* ------------------------------------------------------------------------
BUFFER_SECONDS == 3        \* config.py: 5
SAMPLING_RATE == 1         \* config.py: 256 (samples per second of EEG)
MOTION_RATE == 1           \* data_stream.py: the literal 52 of the motion deques
UPDATE_INTERVAL == 1       \* config.py: UPDATE_INTERVAL_MS / 1000.0 = 0.25 s = 1 unit
GAME_DURATION_S == 2       \* config.py: 10.0 s = 40 units
INITIAL_SHOT_TIMER == 2    \* layout.py: the literal 10.0 of the initial store
MAX_SHOTS == 2             \* config.py: 10

EEG_CHANNELS == <<"TP9", "AF7", "AF8", "TP10">>
AXES == <<"X", "Y", "Z">>

\* signal_processing.py, detect_blink
THRESHOLD == 65            \* threshold=65
COOLDOWN == 3              \* cooldown=0.75 s = 3 units
MIN_BLINK_SAMPLES == 2     \* "if len(data) < 50": 50
BLINK_WINDOW == 2          \* int(0.2 * fs) = 51 samples at 256 Hz

\* ------------------------------------------------------------------------
\* bounds of the exploration
\* ------------------------------------------------------------------------
MaxPushes == 4             \* samples one source delivers
StartTime == 3             \* time.time() when the program starts (>= COOLDOWN: the epoch is long past)
MaxElapsed == 3            \* units of time the clock may advance

MaxOverdue == 2            \* units a waiting game's shot_timer may fall below zero

\* ------------------------------------------------------------------------
\* streams, keys, capacities
\* ------------------------------------------------------------------------
StreamSet == {"EEG", "Accelerometer", "Gyroscope"}

Keys(name) == IF name = "EEG" THEN EEG_CHANNELS ELSE AXES

RECURSIVE SeqToSet(_)
SeqToSet(s) == IF s = <<>> THEN {} ELSE {Head(s)} \cup SeqToSet(Tail(s))

KeySet(name) == SeqToSet(Keys(name))

\* maxlen of the deques of a stream
Capacity(name) ==
    IF name = "EEG" THEN BUFFER_SECONDS * SAMPLING_RATE
    ELSE BUFFER_SECONDS * MOTION_RATE

\* a full deque that refuses the new item instead of dropping the oldest
DequeAppend_KeepsOldest(d, x, maxlen) ==
    IF Len(d) >= maxlen THEN d ELSE d \o <<x>>

\* collections.deque(maxlen=n).append(x): drop the oldest item when full
DequeAppend(d, x, maxlen) ==
    IF maxlen = 0 THEN d
    ELSE IF Len(d) >= maxlen THEN Tail(d) \o <<x>>
    ELSE d \o <<x>>

\* ------------------------------------------------------------------------
\* what the sources deliver: one vector per pull, in key order
\* ------------------------------------------------------------------------
\* EEG, in TP9, AF7, AF8, TP10 order: a quiet sample, and a blink artifact
\* (an amplitude further than THRESHOLD from the baseline) on AF7 or on AF8
Q == <<10, 0, 0, -10>>
S7 == <<10, 100, 0, -10>>
S8 == <<10, 0, 100, -10>>
IsSpike(sample) == sample \in {S7, S8}

EEGSamples == {Q, S7, S8}
AccSamples == { <<4, 5, 6>> }
GyroSamples == { <<0, -5, 5>> }

VARIABLES
    inlets,        \* data_stream.inlets: TRUE for a StreamInlet, FALSE for None
    source,        \* what each stream source has yet to deliver, next sample first
    buffers,       \* data_stream.buffers[name][key]: the deque, oldest first
    timestamps,    \* data_stream.timestamps[name]
    loop,          \* where stream_loop stands, with the sample it holds
    pushed,        \* history: the completed pushes of each stream, in order
    appended,      \* history: appends made to each deque of a stream
    now,           \* the wall clock, time.time()
    active_tab,    \* the value of dcc.Tabs(id="tabs")
    game_state,    \* the data of dcc.Store(id='game-state-store')
    status,        \* the children of game-state-output
    call,          \* history: what the last run of update_zen_archer did
    spike_at,      \* history: the times at which blink artifacts were pulled
    fired_at,      \* history: the times of the fired=true results that were stored
    ticked,        \* history: the interval has fired in the current period
    vehicle,       \* cartPoleGymnasium.py: the main loop's variables
    startup,       \* run.py: the settings and how far the start has come
    graph          \* what a run of a graph callback has read and what it plots

storeVars == <<inlets, source, buffers, timestamps, loop, pushed, appended>>
uiVars == <<active_tab, game_state, status, call>>
histVars == <<spike_at, fired_at, ticked>>
sideVars == <<vehicle, startup, graph>>
vars == <<inlets, source, buffers, timestamps, loop, pushed, appended, now,
          active_tab, game_state, status, call, spike_at, fired_at, ticked,
          vehicle, startup, graph>>

\* ------------------------------------------------------------------------
\* data_stream.py: connect_stream, the module-level state, stream_loop
\* ------------------------------------------------------------------------
\* connect_stream(name): a StreamInlet, or None when the stream is not found
connect_stream == BOOLEAN

NoSample == <<>>
Idle == [name |-> "EEG", i |-> 0, sample |-> NoSample, ts |-> 0]

\* the module-level statements of data_stream.py, lines 8-37
DataStreamInit ==
    /\ inlets \in [StreamSet -> connect_stream]
    /\ buffers = [name \in StreamSet |-> [key \in KeySet(name) |-> <<>>]]
    /\ timestamps = [name \in StreamSet |-> <<>>]
    /\ loop = Idle
    /\ pushed = [name \in StreamSet |-> <<>>]
    /\ appended = [name \in StreamSet |-> [key \in KeySet(name) \cup {"ts"} |-> 0]]

\* a pull that does not look at the inlet
Pull_IgnoresInlet(name) ==
    /\ loop.i = 0
    /\ source[name] # <<>>
    /\ loop' = [name |-> name, i |-> 1, sample |-> Head(source[name]),
                ts |-> Len(pushed[name])]
    /\ source' = [source EXCEPT ![name] = Tail(@)]
    /\ UNCHANGED <<inlets, buffers, timestamps, pushed, appended, now>>
    /\ UNCHANGED uiVars

\* stream_loop, lines 43-47: pull_sample(timeout=0.0) returns a sample and its
\* timestamp.  A stream whose inlet is None or that has nothing to deliver is
\* passed over, so from the top of the loop any connected stream with a
\* pending sample can be the next one pushed.  The timestamp is the sample's
\* number in its stream, counted from 0.
Pull(name) ==
    /\ loop.i = 0
    /\ inlets[name]
    /\ source[name] # <<>>
    /\ loop' = [name |-> name, i |-> 1, sample |-> Head(source[name]),
                ts |-> Len(pushed[name])]
    /\ source' = [source EXCEPT ![name] = Tail(@)]
    /\ UNCHANGED <<inlets, buffers, timestamps, pushed, appended, now>>
    /\ UNCHANGED uiVars

\* stream_loop, lines 48-49: buffers[name][key].append(sample[i])
AppendSample ==
    LET name == loop.name
        key == Keys(name)[loop.i] IN
    /\ loop.i \in 1..Len(Keys(name))
    /\ buffers' = [buffers EXCEPT ![name][key] =
                      DequeAppend(@, loop.sample[loop.i], Capacity(name))]
    /\ appended' = [appended EXCEPT ![name][key] = @ + 1]
    /\ loop' = [loop EXCEPT !.i = @ + 1]
    /\ UNCHANGED <<inlets, source, timestamps, pushed, now>>
    /\ UNCHANGED uiVars

\* stream_loop, line 50: timestamps[name].append(ts); the push is complete
AppendTimestamp ==
    LET name == loop.name IN
    /\ loop.i = Len(Keys(name)) + 1
    /\ timestamps' = [timestamps EXCEPT ![name] = DequeAppend(@, loop.ts, Capacity(name))]
    /\ appended' = [appended EXCEPT ![name]["ts"] = @ + 1]
    /\ pushed' = [pushed EXCEPT ![name] = Append(@, [sample |-> loop.sample, ts |-> loop.ts])]
    /\ loop' = Idle
    /\ UNCHANGED <<inlets, source, buffers, now>>
    /\ UNCHANGED uiVars

stream_loop == (\E name \in StreamSet : Pull(name)) \/ AppendSample \/ AppendTimestamp

\* time passes
Clock ==
    /\ now < StartTime + MaxElapsed
    /\ now' = now + 1
    /\ UNCHANGED storeVars
    /\ UNCHANGED uiVars

\* ------------------------------------------------------------------------
\* signal_processing.py: detect_blink
\* ------------------------------------------------------------------------
RECURSIVE SeqMax(_)
SeqMax(q) ==
    IF Len(q) = 1 THEN q[1]
    ELSE LET m == SeqMax(Tail(q)) IN IF q[1] > m THEN q[1] ELSE m

RECURSIVE SeqMin(_)
SeqMin(q) ==
    IF Len(q) = 1 THEN q[1]
    ELSE LET m == SeqMin(Tail(q)) IN IF q[1] < m THEN q[1] ELSE m

\* data[-n:]: the last n items, all of them when there are fewer (or n = 0)
LastItems(data, n) ==
    IF n = 0 \/ Len(data) <= n THEN data
    ELSE SubSeq(data, Len(data) - n + 1, Len(data))

frontal_channels == <<"AF7", "AF8">>

\* the spike test on the whole buffer instead of its last 0.2 s
ChannelSpike_WholeBuffer(data) ==
    /\ ~(Len(data) < MIN_BLINK_SAMPLES)
    /\ SeqMax(data) - SeqMin(data) > THRESHOLD

\* lines 61-69: one channel of the scan; TRUE when it shows a spike
ChannelSpike(data) ==
    LET recent_data == LastItems(data, BLINK_WINDOW) IN
    /\ ~(Len(data) < MIN_BLINK_SAMPLES)
    /\ Len(recent_data) > 0
    /\ SeqMax(recent_data) - SeqMin(recent_data) > THRESHOLD

\* a scan that looks at AF8 alone
ScanChannels_AF8Only(chs, eeg_buffer, current_time, last_blink_time) ==
    IF ChannelSpike(eeg_buffer["AF8"])
    THEN [fired |-> TRUE, time |-> current_time]
    ELSE [fired |-> FALSE, time |-> last_blink_time]

\* a scan that ends, fired=false, at a channel with too few samples
RECURSIVE ScanChannels_StopsAtShort(_, _, _, _)
ScanChannels_StopsAtShort(chs, eeg_buffer, current_time, last_blink_time) ==
    IF chs = <<>> THEN [fired |-> FALSE, time |-> last_blink_time]
    ELSE IF Len(eeg_buffer[Head(chs)]) < MIN_BLINK_SAMPLES
         THEN [fired |-> FALSE, time |-> last_blink_time]
    ELSE IF ChannelSpike(eeg_buffer[Head(chs)])
         THEN [fired |-> TRUE, time |-> current_time]
         ELSE ScanChannels_StopsAtShort(Tail(chs), eeg_buffer, current_time, last_blink_time)

\* lines 61-71: "for ch in frontal_channels", returning at the first spike
RECURSIVE ScanChannels(_, _, _, _)
ScanChannels(chs, eeg_buffer, current_time, last_blink_time) ==
    IF chs = <<>> THEN [fired |-> FALSE, time |-> last_blink_time]
    ELSE IF ChannelSpike(eeg_buffer[Head(chs)])
         THEN [fired |-> TRUE, time |-> current_time]
         ELSE ScanChannels(Tail(chs), eeg_buffer, current_time, last_blink_time)

\* a refractory period one time unit short
Refractory_Short(current_time, last_blink_time) ==
    current_time - last_blink_time < COOLDOWN - 1

\* lines 58-59: the refractory test
Refractory(current_time, last_blink_time) ==
    current_time - last_blink_time < COOLDOWN

\* detect_blink(eeg_buffer, fs, last_blink_time=...), with time.time() = current_time
detect_blink(eeg_buffer, current_time, last_blink_time) ==
    IF Refractory(current_time, last_blink_time)
    THEN [fired |-> FALSE, time |-> last_blink_time]
    ELSE ScanChannels(frontal_channels, eeg_buffer, current_time, last_blink_time)

\* ------------------------------------------------------------------------
\* layout.py and callbacks.py: the game
\* ------------------------------------------------------------------------
\* the values of dcc.Tabs(id="tabs"); 'eeg-tab' and 'motion-tab' are to the
\* game callback what 'band-tab' is: a tab that is not 'game-tab'
Tabs == {"game-tab", "band-tab"}

CENTER == 235              \* the crosshair's start, (235, 235)
START_TARGET == 175        \* the first target, (175, 175)
TARGET_RADIUS == 75        \* half the 150 px target
ARENA_MAX == 470           \* np.clip(smoothed, 0, 470)
SENSITIVITY == 5           \* sensitivity = 5

\* np.random.uniform(-shake_magnitude, shake_magnitude): shake_magnitude is
\* clipped to [1, 25], so this offset can be drawn on every tick
JITTER == {1}
\* (np.random.randint(25, 325), np.random.randint(25, 325))
TARGETS == { <<25, 324>>, <<160, 160>> }

\* layout.py, get_page_content: the initial data of game-state-store
InitialStore ==
    [score |-> 0, target_pos |-> <<START_TARGET, START_TARGET>>,
     last_blink_time |-> 0, shot_timer |-> INITIAL_SHOT_TIMER]

\* a reset that does not restart the blink cooldown
NewGame_KeepsBlinkTime(t) ==
    [score |-> 0, target_pos |-> <<START_TARGET, START_TARGET>>,
     last_blink_time |-> 0, shot_timer |-> GAME_DURATION_S, shot_number |-> 0,
     crosshair_pos |-> <<CENTER, CENTER>>]

\* callbacks.py, lines 141-145: the state a start/reset click creates
NewGame(t) ==
    [score |-> 0, target_pos |-> <<START_TARGET, START_TARGET>>,
     last_blink_time |-> t, shot_timer |-> GAME_DURATION_S, shot_number |-> 0,
     crosshair_pos |-> <<CENTER, CENTER>>]

\* dict.get(key, default)
Get(d, key, default) == IF key \in DOMAIN d THEN d[key] ELSE default

\* "if not game_state": None or an empty dict
Falsy(d) == DOMAIN d = {}

\* the game-over check with > for >=
IsGameOver_OneShotLate(gs) == Get(gs, "shot_number", 0) > MAX_SHOTS

\* line 152: the game-over check
IsGameOver(gs) == Get(gs, "shot_number", 0) >= MAX_SHOTS

\* lines 162-171: the focus channels that have enough samples for band power
focus_channels == {"AF7", "AF8"}
\* the length test with >= for >
EnoughForBandPower_Inclusive(y) == Len(y) >= 2 * SAMPLING_RATE
\* the length test against one second of samples
EnoughForBandPower_OneSecond(y) == Len(y) > SAMPLING_RATE
EnoughForBandPower(y) == Len(y) > 2 * SAMPLING_RATE
NumChannels(eeg_buffer) ==
    Cardinality({ch \in focus_channels : EnoughForBandPower(eeg_buffer[ch])})

\* lines 179-183: buffers['Gyroscope']['Y'][-1] or ['Z'][-1] raises IndexError
GyroMissing(gyro_buffer) == gyro_buffer["Y"] = <<>> \/ gyro_buffer["Z"] = <<>>

Clip(v, lo, hi) == IF v < lo THEN lo ELSE IF v > hi THEN hi ELSE v

\* lines 192-195: the exponential moving average, 0.4 * raw + 0.6 * prev,
\* in whole pixels
Smooth(raw, prev) == (2 * raw + 3 * prev) \div 5

\* a shot that needs the blink and the expiry together
ShotFired_Both(blinked, shot_timer) == blinked /\ shot_timer <= 0

\* a timer that has to go below zero to force the shot
ShotFired_BelowZero(blinked, shot_timer) == blinked \/ shot_timer < 0

\* a shot that only a blink fires
ShotFired_BlinkOnly(blinked, shot_timer) == blinked

\* line 202
ShotFired(blinked, shot_timer) == blinked \/ shot_timer <= 0

\* the rings with < for <=
Points_OpenRings(dist2) ==
    IF dist2 < 25 * 25 THEN 100
    ELSE IF dist2 < 50 * 50 THEN 50
    ELSE IF dist2 < 75 * 75 THEN 20
    ELSE 0

\* lines 209-213, on the squared distance
Points(dist2) ==
    IF dist2 <= 25 * 25 THEN 100
    ELSE IF dist2 <= 50 * 50 THEN 50
    ELSE IF dist2 <= 75 * 75 THEN 20
    ELSE 0

\* ten points off for a shot that the timer forces
ShotPoints_MissPenalty(blinked, dist2) == IF blinked THEN Points(dist2) ELSE -10

\* points for every shot, blink or not
ShotPoints_AnyShot(blinked, dist2) == Points(dist2)

\* lines 205-213: only a deliberate blink scores
ShotPoints(blinked, dist2) == IF blinked THEN Points(dist2) ELSE 0

\* a shot counted once for the blink and once for the expired timer
FireShot_CountsTwice(gs, points, new_target) ==
    [gs EXCEPT !.score = @ + points,
               !.shot_number = IF gs.shot_timer <= 0 /\ points > 0 THEN @ + 2 ELSE @ + 1,
               !.target_pos = new_target,
               !.shot_timer = GAME_DURATION_S]

\* a shot that leaves the timer where it is
FireShot_KeepsTimer(gs, points, new_target) ==
    [gs EXCEPT !.score = @ + points,
               !.shot_number = @ + 1,
               !.target_pos = new_target]

\* lines 215-218: what a fired shot does to the state
FireShot(gs, points, new_target) ==
    [gs EXCEPT !.score = @ + points,
               !.shot_number = @ + 1,
               !.target_pos = new_target,
               !.shot_timer = GAME_DURATION_S]

NoStatus == [text |-> "", score |-> 0, shot |-> 0]

\* an except clause that does not catch the IndexError
GyroIndexErrorCaught_No == FALSE

\* lines 179-183: "except IndexError" catches what the read of an empty
\* deque raises
GyroIndexErrorCaught == TRUE

\* a callback that runs on every tab
NotOnGameTab_Never(tab) == FALSE

\* line 135
NotOnGameTab(tab) == tab # "game-tab"

\* update_zen_archer(_, n_clicks, game_state, active_tab) with
\* ctx.triggered[0]['prop_id'] = triggered and the random draws jx, jy,
\* new_target.  The result: what is returned for game-state-store ("store")
\* and game-state-output ("text"), or that nothing was returned.
ZenArcher(triggered, gs_in, tab, bufs, t, jx, jy, new_target) ==
    LET reset == triggered = "start-game-btn.n_clicks"
        gs0 == IF reset THEN NewGame(t) ELSE gs_in
        gs1 == [gs0 EXCEPT !.shot_timer = @ - UPDATE_INTERVAL]
        d == detect_blink(bufs["EEG"], t, gs1.last_blink_time)
        blinked == d.fired
        gs2 == [gs1 EXCEPT !.last_blink_time = d.time]
        gyro_y == bufs["Gyroscope"]["Y"][Len(bufs["Gyroscope"]["Y"])]
        gyro_z == - bufs["Gyroscope"]["Z"][Len(bufs["Gyroscope"]["Z"])]
        raw_x == CENTER + gyro_z * SENSITIVITY + jx
        raw_y == CENTER + gyro_y * SENSITIVITY + jy
        prev == Get(gs2, "crosshair_pos", <<CENTER, CENTER>>)
        smoothed == <<Smooth(raw_x, prev[1]), Smooth(raw_y, prev[2])>>
        gs3 == [k \in DOMAIN gs2 \cup {"crosshair_pos"} |->
                   IF k = "crosshair_pos" THEN smoothed ELSE gs2[k]]
        crosshair_x == Clip(smoothed[1], 0, ARENA_MAX)
        crosshair_y == Clip(smoothed[2], 0, ARENA_MAX)
        shot_fired == ShotFired(blinked, gs3.shot_timer)
        dx == crosshair_x - (gs3.target_pos[1] + TARGET_RADIUS)
        dy == crosshair_y - (gs3.target_pos[2] + TARGET_RADIUS)
        points == ShotPoints(blinked, dx * dx + dy * dy)
        gs4 == FireShot(gs3, points, new_target)
        expired == gs2.shot_timer <= 0
        quiet == [kind |-> "no_update", blinked |-> FALSE, expired |-> FALSE,
                  shot_fired |-> FALSE, points |-> 0]
    IN
    IF NotOnGameTab(tab) THEN
        [call |-> quiet, stored |-> FALSE]
    ELSE IF Falsy(gs0) THEN
        [call |-> quiet, stored |-> FALSE]
    ELSE IF IsGameOver(gs0) THEN
        [call |-> [quiet EXCEPT !.kind = "game_over"], stored |-> TRUE, store |-> gs0,
         text |-> [text |-> "GAME OVER", score |-> gs0.score, shot |-> 0]]
    ELSE IF NumChannels(bufs["EEG"]) = 0 THEN
        [call |-> [quiet EXCEPT !.kind = "waiting_eeg",
                                !.blinked = blinked, !.expired = expired],
         stored |-> TRUE, store |-> gs2,
         text |-> [text |-> "Waiting for EEG data...", score |-> 0, shot |-> 0]]
    ELSE IF GyroMissing(bufs["Gyroscope"]) /\ ~GyroIndexErrorCaught THEN
        [call |-> [quiet EXCEPT !.kind = "raised",
                                !.blinked = blinked, !.expired = expired],
         stored |-> FALSE]
    ELSE IF GyroMissing(bufs["Gyroscope"]) THEN
        [call |-> [quiet EXCEPT !.kind = "waiting_gyro",
                                !.blinked = blinked, !.expired = expired],
         stored |-> TRUE, store |-> gs2,
         text |-> [text |-> "Waiting for Gyro data...", score |-> 0, shot |-> 0]]
    ELSE IF shot_fired /\ "shot_number" \notin DOMAIN gs3 THEN
        \* line 216: game_state['shot_number'] += 1 raises KeyError
        [call |-> [quiet EXCEPT !.kind = "raised",
                                !.blinked = blinked, !.expired = expired,
                                !.shot_fired = TRUE],
         stored |-> FALSE]
    ELSE
        LET gs5 == IF shot_fired THEN gs4 ELSE gs3 IN
        [call |-> [quiet EXCEPT !.kind = "played",
                                !.blinked = blinked, !.expired = expired,
                                !.shot_fired = shot_fired,
                                !.points = IF shot_fired THEN points ELSE 0],
         stored |-> TRUE, store |-> gs5,
         text |-> [text |-> "Score", score |-> gs5.score,
                   shot |-> Get(gs5, "shot_number", 0) + 1]]

\* The run read a stream in the middle of a push: some deque of the stream
\* has had an append that another has not.  The runs that get past the
\* game-over check read EEG; those that get past the band-power check read
\* Gyroscope.
Torn(name) == \E k1, k2 \in DOMAIN appended[name] :
                  appended[name][k1] # appended[name][k2]
ReadsEEG(kind) == kind \in {"waiting_eeg", "waiting_gyro", "played", "raised"}
ReadsGyro(kind) == kind \in {"waiting_gyro", "played", "raised"}
TornRead(kind) ==
    \/ ReadsEEG(kind) /\ Torn("EEG")
    \/ ReadsGyro(kind) /\ Torn("Gyroscope")

\* one run of the callback: the outputs it returns replace the store and the
\* status line; dash.no_update and an exception leave them as they are.  The
\* random numbers are drawn where the code draws them: the jitter on the runs
\* that reach lines 188-189, the new target on those that reach line 217.
Callback(triggered) ==
    LET probe == ZenArcher(triggered, game_state, active_tab, buffers, now,
                           0, 0, <<0, 0>>).call
        aims == probe.kind \in {"played", "raised"}
        jitter == IF aims THEN JITTER ELSE {0}
        targets == IF probe.kind = "played" /\ probe.shot_fired
                   THEN TARGETS ELSE {<<0, 0>>}
    IN
    \E jx \in jitter, jy \in jitter, new_target \in targets :
        LET r == ZenArcher(triggered, game_state, active_tab, buffers, now,
                           jx, jy, new_target) IN
        /\ call' = [k \in DOMAIN r.call \cup {"torn"} |->
                       IF k = "torn" THEN TornRead(r.call.kind) ELSE r.call[k]]
        /\ game_state' = IF r.stored THEN r.store ELSE game_state
        /\ status' = IF r.stored THEN r.text ELSE status
        /\ UNCHANGED <<active_tab, now>>
        /\ UNCHANGED storeVars

\* dcc.Interval(id='interval') fires
IntervalTick ==
    /\ game_state.shot_timer - UPDATE_INTERVAL >= - MaxOverdue
    /\ Callback("interval.n_intervals")

\* the Start / Reset Game button, which only the game tab shows, is clicked
StartGame ==
    /\ active_tab = "game-tab"
    /\ Callback("start-game-btn.n_clicks")

\* the user selects another tab
SelectTab ==
    /\ \E tab \in Tabs \ {active_tab} : active_tab' = tab
    /\ UNCHANGED <<game_state, status, call, now>>
    /\ UNCHANGED storeVars

\* ------------------------------------------------------------------------
\* cartPoleGymnasium.py: the gyroscope mapped to steer, gas and brake
\* ------------------------------------------------------------------------
\* Gyroscope readings are whole degrees per second; steer, gas and brake
\* are counted in millionths, 1.0 being ONE.
ONE == 1000000
STEER_THRESHOLD == 30
ACCEL_THRESHOLD == 10
BRAKE_THRESHOLD == 70

MaxSteps == 7              \* iterations of the main loop (range(5000))

\* latest_sample: the last sample drained from the inlet, [0.0, 0.0, 0.0]
\* when none arrived
GyroX == {-40, -31, -30, 0, 30, 31}
GyroY == {-90, -80, -71, -70, 0, 10, 11, 40}

\* lines 33-34, before the first iteration
VehicleStart ==
    [step |-> 0, prev_steer |-> 0, prev_gas |-> 0,
     gyro_x |-> 0, gyro_y |-> 0, steer |-> 0, gas |-> 0, brake |-> 0]

\* x * 0.999, x * 0.99
Decay999(x) == (x * 999) \div 1000
Decay99(x) == (x * 99) \div 100

\* lines 50-55
Steer(gyro_x, prev_steer) ==
    IF gyro_x < - STEER_THRESHOLD THEN ONE
    ELSE IF gyro_x > STEER_THRESHOLD THEN - ONE
    ELSE Decay999(prev_steer)

\* the brake band with the gas of the band above it
Throttle_GasWhileBraking(gyro_y, prev_gas) ==
    IF gyro_y > ACCEL_THRESHOLD
    THEN [gas |-> Clip((gyro_y * ONE) \div 10, 0, ONE), brake |-> 0]
    ELSE IF gyro_y < - BRAKE_THRESHOLD
    THEN [gas |-> ONE, brake |-> (Clip((- gyro_y * ONE) \div 90, 0, ONE) * 8) \div 10]
    ELSE [gas |-> Decay99(prev_gas), brake |-> 0]

\* lines 58-66: ACCEL_GAIN = 1.0, BRAKE_GAIN = 0.8
Throttle(gyro_y, prev_gas) ==
    IF gyro_y > ACCEL_THRESHOLD
    THEN [gas |-> Clip((gyro_y * ONE) \div 10, 0, ONE), brake |-> 0]
    ELSE IF gyro_y < - BRAKE_THRESHOLD
    THEN [gas |-> 0, brake |-> (Clip((- gyro_y * ONE) \div 90, 0, ONE) * 8) \div 10]
    ELSE [gas |-> Decay99(prev_gas), brake |-> 0]

\* one iteration of the main loop, lines 37-88.  No statement of the loop
\* assigns prev_steer or prev_gas: they keep the 0.0 of lines 33-34.
VehicleTick ==
    /\ vehicle.step < MaxSteps
    /\ \E gyro_x \in GyroX, gyro_y \in GyroY :
          LET t == Throttle(gyro_y, vehicle.prev_gas) IN
          vehicle' = [step |-> vehicle.step + 1,
                      prev_steer |-> vehicle.prev_steer,
                      prev_gas |-> vehicle.prev_gas,
                      gyro_x |-> gyro_x, gyro_y |-> gyro_y,
                      steer |-> Steer(gyro_x, vehicle.prev_steer),
                      gas |-> t.gas, brake |-> t.brake]
    /\ UNCHANGED <<storeVars, now, uiVars, histVars, startup, graph>>

\* ------------------------------------------------------------------------
\* run.py: the start of the program under the settings of config.py
\* ------------------------------------------------------------------------
SettingsBelowZero == 1
MaxSetting == 2
MaxStartupPushes == 3

Settings == (0 - SettingsBelowZero)..MaxSetting

\* collections.deque(maxlen=n) raises ValueError for a negative n; it accepts 0
DequeMaxlenOk(maxlen) == maxlen >= 0

\* before "from src.data_stream import ..." of run.py line 3
Configured(buffer_seconds, sampling_rate) ==
    [buffer_seconds |-> buffer_seconds, sampling_rate |-> sampling_rate,
     phase |-> "configured", eeg |-> <<>>, pushes |-> 0]

\* the program of the other specifications: started under the settings above
Serving ==
    [buffer_seconds |-> BUFFER_SECONDS, sampling_rate |-> SAMPLING_RATE,
     phase |-> "serving", eeg |-> <<>>, pushes |-> 0]

\* data_stream.py lines 8-17, run at the import of run.py line 3: the deques
\* are made with maxlen = BUFFER_SECONDS * SAMPLING_RATE (EEG) and
\* BUFFER_SECONDS * 52; nothing else looks at the settings
CreateBuffers ==
    /\ startup.phase = "configured"
    /\ startup' = [startup EXCEPT !.phase =
          IF /\ DequeMaxlenOk(startup.buffer_seconds * startup.sampling_rate)
             /\ DequeMaxlenOk(startup.buffer_seconds * MOTION_RATE)
          THEN "imported" ELSE "failed"]
    /\ UNCHANGED <<storeVars, now, uiVars, histVars, vehicle, graph>>

\* run.py line 10, data_stream.py lines 53-56: the producer thread starts
start_stream_thread ==
    /\ startup.phase = "imported"
    /\ startup' = [startup EXCEPT !.phase = "polling"]
    /\ UNCHANGED <<storeVars, now, uiVars, histVars, vehicle, graph>>

\* run.py line 14: app.run serves the interval's ticks
AppRun ==
    /\ startup.phase = "polling"
    /\ startup' = [startup EXCEPT !.phase = "serving"]
    /\ UNCHANGED <<storeVars, now, uiVars, histVars, vehicle, graph>>

\* stream_loop line 49 on one EEG deque of the started program
StartupPush ==
    /\ startup.phase \in {"polling", "serving"}
    /\ startup.pushes < MaxStartupPushes
    /\ \E x \in {Q, S7} :
          startup' = [startup EXCEPT
              !.eeg = DequeAppend(@, x[2], startup.buffer_seconds * startup.sampling_rate),
              !.pushes = @ + 1]
    /\ UNCHANGED <<storeVars, now, uiVars, histVars, vehicle, graph>>

\* ------------------------------------------------------------------------
\* update_eeg_graph
\* ------------------------------------------------------------------------
MIN_FILTER_LEN == 10
NOTCH_PADLEN == 9
BUTTER_PADLEN == 15
MaxWindow == 17

\* layout.py lines 45-51: the values the filter checklist can hand over
FilterChoices == SUBSET {"notch", "highpass", "lowpass"}

\* no run of update_eeg_graph has begun
NoGraph == [pc |-> "idle"]

\* scipy's filtfilt pads with padlen = 3 * max(len(a), len(b)) samples at
\* each end: 3 * 3 for iirnotch, 3 * 5 for butter(4, ..., 'high' / 'low')
PadLen(stage) == IF stage = "notch" THEN NOTCH_PADLEN ELSE BUTTER_PADLEN

\* filtfilt(b, a, data) raises ValueError unless len(data) > padlen; its
\* output has the length of data
FiltFiltFails(data, stage) == Len(data) <= PadLen(stage)

\* apply_filters, signal_processing.py lines 5-31: the selected stages, each
\* on the output of the one before.  The values filtfilt computes are not
\* modelled: the result tells whether a stage raised and carries the samples
\* the window has.
apply_filters(data, selected_filters) ==
    IF \E stage \in selected_filters : FiltFiltFails(data, stage)
    THEN [raised |-> TRUE, data |-> <<>>]
    ELSE [raised |-> FALSE, data |-> data]

\* callbacks.py line 40
LongEnoughToFilter(y) == Len(y) > MIN_FILTER_LEN

\* t[-len(y):] and y[-len(t):] of lines 36-37
TrimToLast(data, n) == LastItems(data, n)

\* update_eeg_graph lines 34-44 on the arrays t and y read at lines 32-33:
\* "t" and "y" are the trace's x and y before "t - t[0]" and the filters,
\* "x" is what is plotted against
EegGraph(t, y, selected_filters) ==
    IF ~(Len(t) > 1 /\ Len(y) > 1) THEN
        [outcome |-> "empty", t |-> <<>>, x |-> <<>>, y |-> <<>>]
    ELSE
        LET t1 == IF Len(t) > Len(y) THEN TrimToLast(t, Len(y)) ELSE t
            y1 == IF Len(y) > Len(t) THEN TrimToLast(y, Len(t)) ELSE y
            x == [i \in 1..Len(t1) |-> t1[i] - t1[1]]
        IN  IF LongEnoughToFilter(y1) /\ selected_filters # {} THEN
                LET f == apply_filters(y1, selected_filters) IN
                IF f.raised
                THEN [outcome |-> "raised", t |-> <<>>, x |-> <<>>, y |-> <<>>]
                ELSE [outcome |-> "filtered", t |-> t1, x |-> x, y |-> f.data]
            ELSE [outcome |-> "plain", t |-> t1, x |-> x, y |-> y1]

\* line 32: t = np.array(timestamps['EEG'])
GraphReadT ==
    /\ graph.pc \in {"idle", "done"}
    /\ \E channel \in SeqToSet(EEG_CHANNELS), selected_filters \in FilterChoices :
          graph' = [pc |-> "read_t", channel |-> channel,
                    filters |-> selected_filters, t_in |-> timestamps["EEG"]]
    /\ UNCHANGED <<storeVars, now, uiVars, histVars, vehicle, startup>>

\* line 33: y = np.array(buffers['EEG'][channel])
GraphReadY ==
    /\ graph.pc = "read_t"
    /\ graph' = [pc |-> "read", channel |-> graph.channel, filters |-> graph.filters,
                 t_in |-> graph.t_in, y_in |-> buffers["EEG"][graph.channel]]
    /\ UNCHANGED <<storeVars, now, uiVars, histVars, vehicle, startup>>

\* lines 34-51: the figure is built from the two arrays
GraphPlot ==
    /\ graph.pc = "read"
    /\ graph' = [pc |-> "done", channel |-> graph.channel, filters |-> graph.filters,
                 t_in |-> graph.t_in, y_in |-> graph.y_in,
                 fig |-> EegGraph(graph.t_in, graph.y_in, graph.filters)]
    /\ UNCHANGED <<storeVars, now, uiVars, histVars, vehicle, startup>>

update_eeg_graph == GraphReadT \/ GraphReadY \/ GraphPlot


\* ------------------------------------------------------------------------
\* update_bandpower_graphs
\* ------------------------------------------------------------------------
\* compute_band_powers, signal_processing.py lines 33-45: welch with
\* nperseg = fs * 2 over the signal, then one power per band.  The powers'
\* values are not modelled, the window they are computed from is.
compute_band_powers(signal, fs) ==
    [bands |-> {"Theta", "Alpha", "Beta"}, nperseg |-> fs * 2, samples |-> Len(signal)]

\* lines 104-120: one graph per channel that passes the length test, in the
\* order of EEG_CHANNELS
BandGraphs(eeg_buffer) ==
    LET estimated == SelectSeq(EEG_CHANNELS, LAMBDA ch : EnoughForBandPower(eeg_buffer[ch]))
    IN  [i \in 1..Len(estimated) |->
            [channel |-> estimated[i],
             powers |-> compute_band_powers(eeg_buffer[estimated[i]], SAMPLING_RATE)]]

\* update_bandpower_graphs, lines 100-120; on another tab it returns
\* dash.no_update, which changes nothing
update_bandpower_graphs ==
    /\ active_tab = "band-tab"
    /\ graph' = [pc |-> "bands", graphs |-> BandGraphs(buffers["EEG"])]
    /\ UNCHANGED <<storeVars, now, uiVars, histVars, vehicle, startup>>

\* ------------------------------------------------------------------------
\* specifications
\* ------------------------------------------------------------------------
RECURSIVE SeqsUpTo(_, _)
SeqsUpTo(S, n) ==
    IF n = 0 THEN {<<>>}
    ELSE LET shorter == SeqsUpTo(S, n - 1) IN
         shorter \cup {Append(q, x) : q \in shorter, x \in S}

SeqsOfLen(S, n) == {q \in SeqsUpTo(S, n) : Len(q) = n}

UiInit ==
    /\ active_tab = "game-tab"
    /\ game_state = InitialStore
    /\ status = NoStatus
    /\ call = [kind |-> "none", blinked |-> FALSE, expired |-> FALSE,
               shot_fired |-> FALSE, points |-> 0, torn |-> FALSE]
    /\ now = StartTime

\* the signals the game is played on
GameSignals ==
    [EEG : {<<Q, S7, Q, Q>>, <<Q, Q, S8, S7>>},
     Accelerometer : {<<>>},
     Gyroscope : {<<<<0, -5, 5>>>>}]

NoHistory == spike_at = <<>> /\ fired_at = <<>> /\ ticked = FALSE

Init ==
    /\ DataStreamInit
    /\ inlets["Accelerometer"]
    /\ source \in GameSignals
    /\ UiInit
    /\ NoHistory
    /\ vehicle = VehicleStart
    /\ startup = Serving
    /\ graph = NoGraph

Next ==
    \/ stream_loop /\ UNCHANGED <<histVars, sideVars>>
    \/ Clock /\ UNCHANGED <<histVars, sideVars>>
    \/ IntervalTick /\ UNCHANGED <<histVars, sideVars>>
    \/ StartGame /\ UNCHANGED <<histVars, sideVars>>
    \/ SelectTab /\ UNCHANGED <<histVars, sideVars>>

Spec == Init /\ [][Next]_vars

\* the ring buffers alone, on every signal of MaxPushes samples
StoreSignals ==
    [EEG : SeqsOfLen(EEGSamples, MaxPushes),
     Accelerometer : SeqsOfLen(AccSamples, MaxPushes),
     Gyroscope : SeqsOfLen(GyroSamples, MaxPushes)]

StoreInit ==
    /\ DataStreamInit
    /\ source \in StoreSignals
    /\ UiInit
    /\ NoHistory
    /\ vehicle = VehicleStart
    /\ startup = Serving
    /\ graph = NoGraph

StoreNext ==
    \/ (\E name \in StreamSet : Pull(name)) /\ UNCHANGED <<histVars, sideVars>>
    \/ AppendSample /\ UNCHANGED <<histVars, sideVars>>
    \/ AppendTimestamp /\ UNCHANGED <<histVars, sideVars>>

StoreSpec == StoreInit /\ [][StoreNext]_vars

\* the blink detector called periodically: the interval fires once in every
\* period of UPDATE_INTERVAL, and the times of the artifacts and of the
\* accepted blinks are kept
BlinkSignals ==
    [EEG : {<<S7, Q, Q, S8>>},
     Accelerometer : {<<>>},
     Gyroscope : {<<<<0, -5, 5>>>>}]

BlinkInit ==
    /\ DataStreamInit
    /\ inlets = [name \in StreamSet |-> TRUE]
    /\ source \in BlinkSignals
    /\ UiInit
    /\ NoHistory
    /\ vehicle = VehicleStart
    /\ startup = Serving
    /\ graph = NoGraph

\* the pull of a blink artifact is noted with its time
PullNoted ==
    \E name \in StreamSet :
        /\ Pull(name)
        /\ spike_at' = IF name = "EEG" /\ IsSpike(Head(source[name]))
                       THEN Append(spike_at, now) ELSE spike_at
        /\ UNCHANGED <<fired_at, ticked, sideVars>>

\* a fired=true result is noted with its time when the run stores it, so that
\* the next call is given the time it returned
ResultNoted ==
    /\ fired_at' = IF call'.blinked /\ call'.kind \in {"waiting_eeg", "waiting_gyro", "played"}
                   THEN Append(fired_at, now) ELSE fired_at
    /\ UNCHANGED <<spike_at, sideVars>>

BlinkNext ==
    \/ PullNoted
    \/ AppendSample /\ UNCHANGED <<histVars, sideVars>>
    \/ AppendTimestamp /\ UNCHANGED <<histVars, sideVars>>
    \/ Clock /\ ticked /\ ticked' = FALSE /\ UNCHANGED <<spike_at, fired_at, sideVars>>
    \/ IntervalTick /\ ~ticked /\ ticked' = TRUE /\ ResultNoted
    \/ StartGame /\ ResultNoted /\ UNCHANGED ticked

BlinkSpec == BlinkInit /\ [][BlinkNext]_vars

\* the game with any of the streams not found
OutageInit ==
    /\ DataStreamInit
    /\ source = [name \in StreamSet |->
                    IF name = "EEG" THEN <<Q, Q, S7>>
                    ELSE IF name = "Gyroscope" THEN << <<0, -5, 5>> >>
                    ELSE << <<4, 5, 6>> >>]
    /\ UiInit
    /\ NoHistory
    /\ vehicle = VehicleStart
    /\ startup = Serving
    /\ graph = NoGraph

OutageNext ==
    \/ stream_loop /\ UNCHANGED <<histVars, sideVars>>
    \/ IntervalTick /\ UNCHANGED <<histVars, sideVars>>
    \/ StartGame /\ UNCHANGED <<histVars, sideVars>>

OutageSpec == OutageInit /\ [][OutageNext]_vars

\* the start of the program under any settings
StartupInit ==
    /\ DataStreamInit
    /\ inlets = [name \in StreamSet |-> TRUE]
    /\ source = [name \in StreamSet |-> <<>>]
    /\ UiInit
    /\ NoHistory
    /\ vehicle = VehicleStart
    /\ graph = NoGraph
    /\ \E buffer_seconds \in Settings, sampling_rate \in Settings :
          startup = Configured(buffer_seconds, sampling_rate)

StartupNext ==
    \/ CreateBuffers
    \/ start_stream_thread
    \/ AppRun
    \/ StartupPush

StartupSpec == StartupInit /\ [][StartupNext]_vars

\* update_eeg_graph on windows of every length up to MaxWindow, under every
\* choice of filters
WindowInit ==
    /\ DataStreamInit
    /\ inlets = [name \in StreamSet |-> TRUE]
    /\ source = [name \in StreamSet |-> <<>>]
    /\ UiInit
    /\ NoHistory
    /\ vehicle = VehicleStart
    /\ startup = Serving
    /\ \E n \in 0..MaxWindow, m \in 0..1, selected_filters \in FilterChoices :
          graph = [pc |-> "read", channel |-> "AF7", filters |-> selected_filters,
                   t_in |-> [i \in 1..(n + m) |-> i - 1],
                   y_in |-> [i \in 1..n |-> i * i]]

WindowNext == GraphPlot

WindowSpec == WindowInit /\ [][WindowNext]_vars

\* the two callers of the band power estimator while the EEG buffers fill
BandInit ==
    /\ DataStreamInit
    /\ inlets = [name \in StreamSet |-> TRUE]
    /\ source = [name \in StreamSet |->
                    IF name = "EEG" THEN <<Q, Q, S7>>
                    ELSE IF name = "Gyroscope" THEN << <<0, -5, 5>> >>
                    ELSE <<>>]
    /\ UiInit
    /\ NoHistory
    /\ vehicle = VehicleStart
    /\ startup = Serving
    /\ graph = NoGraph

BandNext ==
    \/ stream_loop /\ UNCHANGED <<histVars, sideVars>>
    \/ IntervalTick /\ UNCHANGED <<histVars, sideVars>>
    \/ StartGame /\ UNCHANGED <<histVars, sideVars>>
    \/ SelectTab /\ UNCHANGED <<histVars, sideVars>>
    \/ update_bandpower_graphs

BandSpec == BandInit /\ [][BandNext]_vars

\* detect_blink on every pair of frontal buffers, inside and outside the
\* refractory period
DetectInit ==
    /\ inlets = [name \in StreamSet |-> TRUE]
    /\ source = [name \in StreamSet |-> <<>>]
    /\ \E af7 \in SeqsUpTo({0, 100}, Capacity("EEG")),
          af8 \in SeqsUpTo({0, 100}, Capacity("EEG")) :
          buffers = [name \in StreamSet |-> [key \in KeySet(name) |->
                        IF name = "EEG" /\ key = "AF7" THEN af7
                        ELSE IF name = "EEG" /\ key = "AF8" THEN af8
                        ELSE <<>>]]
    /\ timestamps = [name \in StreamSet |-> <<>>]
    /\ loop = Idle
    /\ pushed = [name \in StreamSet |-> <<>>]
    /\ appended = [name \in StreamSet |-> [key \in KeySet(name) \cup {"ts"} |-> 0]]
    /\ active_tab = "game-tab"
    /\ \E last_blink_time \in 0..StartTime :
          game_state = [InitialStore EXCEPT !.last_blink_time = last_blink_time]
    /\ status = NoStatus
    /\ call = [kind |-> "none", blinked |-> FALSE, expired |-> FALSE,
               shot_fired |-> FALSE, points |-> 0, torn |-> FALSE]
    /\ now = StartTime
    /\ NoHistory
    /\ vehicle = VehicleStart
    /\ startup = Serving
    /\ graph = NoGraph

DetectNext ==
    \/ IntervalTick /\ UNCHANGED <<histVars, sideVars>>
    \/ Clock /\ UNCHANGED <<histVars, sideVars>>

DetectSpec == DetectInit /\ [][DetectNext]_vars

\* the EEG graph callback next to the producer
GraphInit ==
    /\ DataStreamInit
    /\ inlets = [name \in StreamSet |-> name = "EEG"]
    /\ source = [name \in StreamSet |-> IF name = "EEG" THEN <<Q, S7, S8, Q>> ELSE <<>>]
    /\ UiInit
    /\ NoHistory
    /\ vehicle = VehicleStart
    /\ startup = Serving
    /\ graph = NoGraph

GraphNext ==
    \/ stream_loop /\ UNCHANGED <<histVars, sideVars>>
    \/ update_eeg_graph

GraphSpec == GraphInit /\ [][GraphNext]_vars

\* the vehicle mapper alone
VehicleInit ==
    /\ DataStreamInit
    /\ inlets = [name \in StreamSet |-> TRUE]
    /\ source = [name \in StreamSet |-> <<>>]
    /\ UiInit
    /\ NoHistory
    /\ vehicle = VehicleStart
    /\ startup = Serving
    /\ graph = NoGraph

VehicleNext == VehicleTick

VehicleSpec == VehicleInit /\ [][VehicleNext]_vars

\* ------------------------------------------------------------------------
\* C1: ring buffers
\* ------------------------------------------------------------------------
KeyIndex(name, key) == CHOOSE i \in 1..Len(Keys(name)) : Keys(name)[i] = key

\* the last n items of q (n > 0)
MostRecent(q, n) ==
    IF Len(q) <= n THEN q ELSE [i \in 1..n |-> q[Len(q) - n + i]]

PushedValues(name, key) ==
    [i \in 1..Len(pushed[name]) |-> pushed[name][i].sample[KeyIndex(name, key)]]
PushedTimes(name) ==
    [i \in 1..Len(pushed[name]) |-> pushed[name][i].ts]

Min2(a, b) == IF a < b THEN a ELSE b

\* C1: no deque is ever longer than its capacity N = buffer_seconds x rate,
\* and after k completed pushes to a stream every channel deque and the
\* timestamp deque hold exactly the min(k, N) most recent samples in push
\* order; with timestamps 0, 1, 2, ... the oldest one kept after k > N pushes
\* is k - N.
C1_KeepsMostRecent ==
    \A name \in StreamSet :
        LET N == Capacity(name)
            k == Len(pushed[name]) IN
        /\ Len(timestamps[name]) <= N
        /\ \A key \in KeySet(name) : Len(buffers[name][key]) <= N
        /\ (loop.i = 0 \/ loop.name # name) =>
              /\ Len(timestamps[name]) = Min2(k, N)
              /\ timestamps[name] = MostRecent(PushedTimes(name), N)
              /\ \A key \in KeySet(name) :
                    buffers[name][key] = MostRecent(PushedValues(name, key), N)
              /\ k > N => timestamps[name][1] = k - N

\* more samples than the capacity have been pushed to every stream
C1_Witness ==
    /\ loop.i = 0
    /\ \A name \in StreamSet :
          /\ Len(pushed[name]) > Capacity(name)
          /\ Len(timestamps[name]) = Capacity(name)

\* ------------------------------------------------------------------------
\* C2: torn reads
\* ------------------------------------------------------------------------
\* C2: no run of the game callback reads a stream while one of its deques
\* holds a sample that another does not hold yet.
C2_NoTornRead == ~call.torn

\* ------------------------------------------------------------------------
\* C3 - C8: the game
\* ------------------------------------------------------------------------
Started(gs) == "shot_number" \in DOMAIN gs
Over(gs) == Started(gs) /\ gs.shot_number >= MAX_SHOTS
OnGameTab == active_tab = "game-tab"

\* C3: once shot_number >= MAX_SHOTS, an interval tick leaves the stored
\* game state as it is, and what it reports is the final score.
C3_GameOverFreezes ==
    [][(IntervalTick /\ Over(game_state)) =>
          /\ game_state' = game_state
          /\ OnGameTab =>
                status' = [text |-> "GAME OVER", score |-> game_state.score, shot |-> 0]
          /\ ~OnGameTab => status' = status]_vars

\* a tick has run on a finished game
C3_Witness == Over(game_state) /\ call.kind = "game_over"

\* C4: shot_number never exceeds MAX_SHOTS.
C4_ShotNumberBounded == Started(game_state) => game_state.shot_number <= MAX_SHOTS

\* the last shot has just been fired
C4_Witness ==
    /\ Started(game_state) /\ game_state.shot_number = MAX_SHOTS
    /\ call.kind = "played" /\ call.shot_fired

\* C5: an interval tick leaves shot_number as it is or adds exactly 1 to it.
C5_AtMostOneShotPerTick ==
    [][IntervalTick =>
          /\ Started(game_state') <=> Started(game_state)
          /\ Started(game_state) =>
                \/ game_state'.shot_number = game_state.shot_number
                \/ game_state'.shot_number = game_state.shot_number + 1]_vars

\* a tick on which the blink and the timer expiry coincided fired one shot
C5_Witness ==
    /\ Started(game_state) /\ game_state.shot_number >= 1
    /\ call.kind = "played" /\ call.shot_fired /\ call.blinked /\ call.expired

\* no focus channel has more than 2 seconds of samples
NoFocusData == \A ch \in {"AF7", "AF8"} : Len(buffers["EEG"][ch]) <= 2 * SAMPLING_RATE
\* the gyroscope's latest Y and Z sample cannot both be read
NoGyroData == Len(buffers["Gyroscope"]["Y"]) = 0 \/ Len(buffers["Gyroscope"]["Z"]) = 0
\* a tick of a started game that is not over
GameTick == IntervalTick /\ OnGameTab /\ Started(game_state) /\ ~Over(game_state)

\* C6 as claimed: on every tick of a started, not-yet-over game a shot fires
\* if and only if the blink detector fired or shot_timer, decremented, is
\* <= 0, and last_blink_time does not advance without a shot.
C6_ShotIffBlinkOrExpiry ==
    [][GameTick =>
          LET shot == game_state'.shot_number = game_state.shot_number + 1 IN
          /\ shot <=> (call'.blinked \/ game_state.shot_timer - UPDATE_INTERVAL <= 0)
          /\ game_state'.last_blink_time # game_state.last_blink_time => shot]_vars

\* C6 amended: the equivalence, and that no blink is consumed without a
\* shot, hold on the ticks that get past both waiting checks; a tick that
\* ends waiting for EEG or gyroscope data fires no shot.
C6_ShotIffBlinkOrExpiryUnlessWaiting ==
    [][GameTick =>
          LET shot == game_state'.shot_number = game_state.shot_number + 1 IN
          IF NoFocusData \/ NoGyroData
          THEN game_state'.shot_number = game_state.shot_number
          ELSE /\ shot <=> (call'.blinked \/ game_state.shot_timer - UPDATE_INTERVAL <= 0)
               /\ game_state'.last_blink_time # game_state.last_blink_time => shot]_vars

\* a tick of a started game has fired a shot for the expired timer alone
C6_Witness ==
    /\ Started(game_state)
    /\ call.kind = "played" /\ call.shot_fired /\ call.expired /\ ~call.blinked

\* C7 as claimed: a tick that finds no focus channel with enough samples
\* stores the game state it was given.
C7_WaitingStoresSameState ==
    [][(IntervalTick /\ OnGameTab /\ ~Over(game_state) /\ NoFocusData) =>
          /\ status'.text = "Waiting for EEG data..."
          /\ game_state' = game_state]_vars

\* C7 amended: such a tick reports waiting and changes nothing but
\* shot_timer, which it decrements, and last_blink_time, which a detected
\* blink sets to now.
C7_WaitingChangesOnlyTimerAndBlinkTime ==
    [][(IntervalTick /\ OnGameTab /\ ~Over(game_state) /\ NoFocusData) =>
          /\ status'.text = "Waiting for EEG data..."
          /\ DOMAIN game_state' = DOMAIN game_state
          /\ \A k \in DOMAIN game_state \ {"shot_timer", "last_blink_time"} :
                game_state'[k] = game_state[k]
          /\ game_state'.shot_timer = game_state.shot_timer - UPDATE_INTERVAL
          /\ game_state'.last_blink_time \in {game_state.last_blink_time, now}
          /\ game_state'.last_blink_time = now <=>
                (call'.blinked \/ game_state.last_blink_time = now)]_vars

\* a waiting tick of a started game on which a blink was detected
C7_Witness ==
    /\ Started(game_state) /\ NoFocusData
    /\ call.kind = "waiting_eeg" /\ call.blinked
    /\ game_state.last_blink_time = now

\* C8 as claimed: a start/reset click stores the freshly initialised state.
C8_ResetStoresFreshState ==
    [][StartGame =>
          game_state' = [score |-> 0, target_pos |-> <<175, 175>>,
                         last_blink_time |-> now, shot_timer |-> GAME_DURATION_S,
                         shot_number |-> 0, crosshair_pos |-> <<235, 235>>]]_vars

\* C8 amended: the run that handles the click goes on to play one tick on the
\* fresh state: shot_timer is one interval short of GAME_DURATION_S, and the
\* crosshair is at the centre only if that tick ends waiting for data.
C8_ResetThenOneTick ==
    [][StartGame =>
          /\ game_state'.score = 0
          /\ game_state'.shot_number = 0
          /\ game_state'.last_blink_time = now
          /\ game_state'.target_pos = <<175, 175>>
          /\ game_state'.shot_timer = GAME_DURATION_S - UPDATE_INTERVAL
          /\ (NoFocusData \/ NoGyroData) => game_state'.crosshair_pos = <<235, 235>>
          /\ status'.text # "GAME OVER"]_vars

\* a reset has been handled, and the tick it ran moved the crosshair
C8_Witness ==
    /\ Started(game_state) /\ game_state.shot_number = 0 /\ game_state.score = 0
    /\ game_state.last_blink_time = now
    /\ game_state.shot_timer = GAME_DURATION_S - UPDATE_INTERVAL
    /\ game_state.crosshair_pos # <<235, 235>>
    /\ call.kind = "played"

\* ------------------------------------------------------------------------
\* C9, C10: the blink detector over time
\* ------------------------------------------------------------------------
\* some frontal channel with at least 50 samples has two samples more than
\* the threshold apart among its most recent 0.2 s
SpikeInWindow ==
    \E ch \in {"AF7", "AF8"} :
        LET data == buffers["EEG"][ch] IN
        /\ Len(data) >= MIN_BLINK_SAMPLES
        /\ \E i, j \in 1..Len(data) :
              /\ i > Len(data) - BLINK_WINDOW
              /\ j > Len(data) - BLINK_WINDOW
              /\ data[i] - data[j] > THRESHOLD

\* a run of the callback that calls the detector and stores what it returns
DetectTick == IntervalTick /\ OnGameTab /\ ~Over(game_state)

\* C9: a detect call made less than the cooldown after the last_blink_time
\* it is given returns (false, last_blink_time) whatever the buffers hold (the
\* call of a reset run is given last_blink_time = now), and the times of any
\* two fired=true results of a chain in which each call is given the time
\* the call before it returned are at least the cooldown apart.
C9_RefractoryRule ==
    /\ [][(DetectTick /\ now - game_state.last_blink_time < COOLDOWN) =>
             /\ ~call'.blinked
             /\ game_state'.last_blink_time = game_state.last_blink_time]_vars
    /\ [][StartGame => (~call'.blinked /\ game_state'.last_blink_time = now)]_vars
    /\ [](\A i, j \in 1..Len(fired_at) : i < j => fired_at[j] - fired_at[i] >= COOLDOWN)

\* a call made inside the refractory period, with the artifact still in the
\* window, has returned fired=false
C9_Witness ==
    /\ Len(fired_at) = 1
    /\ now - fired_at[1] < COOLDOWN /\ now > fired_at[1]
    /\ game_state.last_blink_time = fired_at[1]
    /\ SpikeInWindow
    /\ call.kind \in {"waiting_eeg", "waiting_gyro", "played"} /\ ~call.blinked

\* C10 as claimed: under periodic detect calls two artifacts that arrive at
\* different times less than the cooldown apart give no more than one
\* fired=true result.
C10_CloseSpikesFireOnce ==
    (/\ Len(spike_at) = 2
     /\ spike_at[1] < spike_at[2]
     /\ spike_at[2] - spike_at[1] < COOLDOWN) => Len(fired_at) <= 1

\* C10 amended: the cooldown runs from the last acceptance to the time of the
\* call, not from one artifact to the next: each of the periodic calls fires
\* exactly when it is made at least the cooldown after the last acceptance
\* and finds an artifact in the window it examines.
C10_FiresIffCooledDownAndSpikeInWindow ==
    [][DetectTick =>
          (call'.blinked <=>
              (now - game_state.last_blink_time >= COOLDOWN /\ SpikeInWindow))]_vars

\* two artifacts less than the cooldown apart, the first accepted, and a call
\* that found the second in its window inside the cooldown and did not fire
C10_Witness ==
    /\ Len(spike_at) = 2 /\ spike_at[2] - spike_at[1] < COOLDOWN
    /\ source["EEG"] = <<>> /\ loop.i = 0
    /\ Len(fired_at) = 1 /\ fired_at[1] < spike_at[2]
    /\ now - fired_at[1] < COOLDOWN
    /\ SpikeInWindow
    /\ call.kind \in {"waiting_eeg", "waiting_gyro", "played"} /\ ~call.blinked

\* ------------------------------------------------------------------------
\* C11: a spike that stays in the window
\* ------------------------------------------------------------------------
\* AF7 holds at least 50 samples and, among its most recent 0.2 s, two that
\* are more than the threshold apart
AF7Spike ==
    LET data == buffers["EEG"]["AF7"] IN
    /\ Len(data) >= MIN_BLINK_SAMPLES
    /\ \E i, j \in 1..Len(data) :
          /\ i > Len(data) - BLINK_WINDOW
          /\ j > Len(data) - BLINK_WINDOW
          /\ data[i] - data[j] > THRESHOLD

\* C11: with a spike in AF7's most recent 0.2 s, a detect call made less than
\* the cooldown after the last accepted time t0 (0.5 s after it, say) returns
\* (false, t0), and a call made the cooldown or more after it (0.8 s lies
\* between 3 and 4 units of time) returns (true, now): a spike that persists
\* fires again as soon as the cooldown has elapsed.
C11_PersistingSpikeFiresAgain ==
    [][(DetectTick /\ AF7Spike) =>
          IF now - game_state.last_blink_time < COOLDOWN
          THEN /\ ~call'.blinked
               /\ game_state'.last_blink_time = game_state.last_blink_time
          ELSE /\ call'.blinked
               /\ call'.kind # "raised" => game_state'.last_blink_time = now]_vars

\* the one spike, still in AF7's window, has fired at t0 and again at
\* t0 + cooldown, the calls in between having returned fired=false
C11_Witness ==
    /\ AF7Spike
    /\ Len(pushed["EEG"]) = 2 /\ loop.i = 0
    /\ Len(fired_at) = 2
    /\ fired_at[2] = fired_at[1] + COOLDOWN
    /\ game_state.last_blink_time = now /\ now = fired_at[2]

\* ------------------------------------------------------------------------
\* the shot and its scoring, from the states of a game in play
\* ------------------------------------------------------------------------
\* what EEG has delivered: enough for band power, the last sample a blink
ScoreEEG == [i \in 1..(2 * SAMPLING_RATE + 1) |-> IF i = 2 * SAMPLING_RATE + 1 THEN S7 ELSE Q]

Delivered(name) ==
    IF name = "EEG" THEN ScoreEEG
    ELSE IF name = "Gyroscope" THEN << <<0, -5, 5>> >>
    ELSE <<>>

\* the targets np.random.randint(25, 325) has drawn: at every whole distance
\* up to 100 from where the crosshair comes to rest, along an axis and off it
ScoreTargets ==
    {<<150 + dx, 150 + dy>> : dx \in 0..100, dy \in {0, 20, 40, 60}} \cup {<<324, 150>>}

\* the crosshair_pos of the tick before: the centre, and a point far to the
\* right, from which the smoothed position is still outside the arena
ScoreCrosshairs == {<<235, 235>>, <<660, 235>>}

\* a game whose first shot has gone by, the blink detector ready to fire or
\* in its refractory period
ScoreInit ==
    /\ inlets = [name \in StreamSet |-> TRUE]
    /\ source = [name \in StreamSet |-> <<>>]
    /\ buffers = [name \in StreamSet |-> [key \in KeySet(name) |->
                     [i \in 1..Len(Delivered(name)) |->
                         Delivered(name)[i][KeyIndex(name, key)]]]]
    /\ timestamps = [name \in StreamSet |-> [i \in 1..Len(Delivered(name)) |-> i - 1]]
    /\ pushed = [name \in StreamSet |-> [i \in 1..Len(Delivered(name)) |->
                    [sample |-> Delivered(name)[i], ts |-> i - 1]]]
    /\ appended = [name \in StreamSet |->
                      [key \in KeySet(name) \cup {"ts"} |-> Len(Delivered(name))]]
    /\ loop = Idle
    /\ now = StartTime + COOLDOWN
    /\ active_tab = "game-tab"
    /\ status = NoStatus
    /\ call = [kind |-> "none", blinked |-> FALSE, expired |-> FALSE,
               shot_fired |-> FALSE, points |-> 0, torn |-> FALSE]
    /\ game_state \in [score : {0}, target_pos : ScoreTargets,
                       last_blink_time : {StartTime, StartTime + COOLDOWN},
                       shot_timer : {GAME_DURATION_S}, shot_number : {MAX_SHOTS - 1},
                       crosshair_pos : ScoreCrosshairs]
    /\ NoHistory
    /\ vehicle = VehicleStart
    /\ startup = Serving
    /\ graph = NoGraph

ScoreNext == IntervalTick /\ UNCHANGED <<histVars, sideVars>>

ScoreSpec == ScoreInit /\ [][ScoreNext]_vars

\* ------------------------------------------------------------------------
\* C12: the rings
\* ------------------------------------------------------------------------
\* the square of the distance between the crosshair gs_after stores, clipped
\* to the arena, and the centre of the target of gs_before
ClipToArena(v) == IF v < 0 THEN 0 ELSE IF v > 470 THEN 470 ELSE v
Dist2(gs_before, gs_after) ==
    LET dx == ClipToArena(gs_after.crosshair_pos[1]) - (gs_before.target_pos[1] + 75)
        dy == ClipToArena(gs_after.crosshair_pos[2]) - (gs_before.target_pos[2] + 75)
    IN dx * dx + dy * dy

Ring(d2) ==
    IF d2 <= 25 * 25 THEN 100
    ELSE IF d2 <= 50 * 50 THEN 50
    ELSE IF d2 <= 75 * 75 THEN 20
    ELSE 0

\* a tick on which a detected blink fires a shot
BlinkShot == IntervalTick /\ call'.kind = "played" /\ call'.shot_fired /\ call'.blinked

\* C12: a blink-triggered shot adds to the score 100 points at a distance
\* d <= 25 between the clipped crosshair and the target centre, 50 at
\* 25 < d <= 50, 20 at 50 < d <= 75 and 0 beyond; the points never grow with
\* d, and d = 20, 40, 60, 90 give 100, 50, 20, 0.
C12_PointsByRing ==
    /\ [][BlinkShot =>
             game_state'.score = game_state.score + Ring(Dist2(game_state, game_state'))]_vars
    /\ [](/\ \A a, b \in 0..100 : a <= b => Points(a * a) >= Points(b * b)
          /\ Points(20 * 20) = 100 /\ Points(40 * 40) = 50
          /\ Points(60 * 60) = 20 /\ Points(90 * 90) = 0)

\* a blink-triggered shot has scored 50 points at the very edge of the
\* middle ring, off the axes (30 across, 40 down)
C12_Witness ==
    /\ call.kind = "played" /\ call.shot_fired /\ call.blinked
    /\ call.points = 50 /\ game_state.score = 50
    /\ game_state.crosshair_pos = <<225, 225>>

\* ------------------------------------------------------------------------
\* C13: only a blink scores
\* ------------------------------------------------------------------------
\* C13: a tick changes the score only if the blink detector fired on it; a
\* shot fired by the expired timer alone adds 1 to shot_number and leaves
\* the score as it is, wherever the crosshair is.
C13_OnlyBlinkScores ==
    [][IntervalTick =>
          /\ game_state'.score # game_state.score => call'.blinked
          /\ (call'.kind = "played" /\ call'.shot_fired /\ ~call'.blinked) =>
                /\ game_state'.shot_number = game_state.shot_number + 1
                /\ game_state'.score = game_state.score]_vars

\* the timer has expired inside the refractory period; the shot has been
\* counted and has scored nothing
C13_Witness ==
    /\ call.kind = "played" /\ call.shot_fired /\ ~call.blinked /\ call.expired
    /\ game_state.score = 0 /\ game_state.shot_number = MAX_SHOTS
    /\ game_state.last_blink_time = now
    /\ game_state.shot_timer = GAME_DURATION_S

\* ------------------------------------------------------------------------
\* C14: what a shot does
\* ------------------------------------------------------------------------
\* the run of the callback has carried a shot out
ShotDone == call'.kind = "played" /\ call'.shot_fired

\* the 150-unit target at pos lies within the 500 x 500 arena
TargetInArena(pos) == \A i \in 1..2 : pos[i] >= 0 /\ pos[i] + 150 <= 500

\* C14: a tick that fires a shot, by blink or by timer expiry, adds exactly 1
\* to shot_number, resets shot_timer to GAME_DURATION_S and puts the target
\* at a position inside the arena; a tick that fires none leaves shot_number
\* and the target position as they are.
C14_ShotEffects ==
    [][IntervalTick =>
          IF ShotDone
          THEN /\ call'.blinked \/ call'.expired
               /\ game_state'.shot_number = game_state.shot_number + 1
               /\ game_state'.shot_timer = GAME_DURATION_S
               /\ TargetInArena(game_state'.target_pos)
          ELSE /\ Started(game_state') <=> Started(game_state)
               /\ Started(game_state) => game_state'.shot_number = game_state.shot_number
               /\ game_state'.target_pos = game_state.target_pos]_vars

\* a shot fired by a blink before the timer expired has moved the target to
\* the far corner randint allows
C14_Witness ==
    /\ call.kind = "played" /\ call.shot_fired /\ call.blinked /\ ~call.expired
    /\ game_state.target_pos = <<25, 324>>
    /\ game_state.shot_timer = GAME_DURATION_S
    /\ game_state.shot_number >= 1

\* ------------------------------------------------------------------------
\* C15 - C17: the vehicle mapper
\* ------------------------------------------------------------------------
\* C15: steer is +1 on a tick with gyro-x = -40 (below -30), and on a tick
\* with gyro-x inside [-30, 30] it is 0.999 times the steer of the tick
\* before: after +1 it is 0.999, never a hard zero.
C15_SteerDecaysFromPrevious ==
    [][VehicleTick =>
          /\ vehicle'.gyro_x < -30 => vehicle'.steer = ONE
          /\ (vehicle'.gyro_x >= -30 /\ vehicle'.gyro_x <= 30) =>
                vehicle'.steer = (vehicle.steer * 999) \div 1000]_vars

\* C16: on a tick with gyro-y inside the dead band [-70, 10] gas is 0.99
\* times the gas of the tick before.
C16_GasDecaysFromPrevious ==
    [][VehicleTick =>
          ((vehicle'.gyro_y >= -70 /\ vehicle'.gyro_y <= 10) =>
              vehicle'.gas = (vehicle.gas * 99) \div 100)]_vars

\* C17: gas and brake are never both non-zero; brake is above zero only on a
\* tick with gyro-y < -70, and gas is 0 on such a tick.
C17_GasBrakeExclusive ==
    /\ ~(vehicle.gas # 0 /\ vehicle.brake # 0)
    /\ vehicle.brake >= 0 /\ vehicle.gas >= 0
    /\ vehicle.brake > 0 => vehicle.gyro_y < -70
    /\ (vehicle.step > 0 /\ vehicle.gyro_y < -70) => (vehicle.gas = 0 /\ vehicle.brake > 0)
    /\ \A gyro_y \in GyroY, prev_gas \in {0, ONE \div 2, ONE} :
          LET t == Throttle(gyro_y, prev_gas) IN
          /\ ~(t.gas # 0 /\ t.brake # 0)
          /\ t.brake > 0 <=> gyro_y < -70

\* a hard nod backward right after full gas: the brake is on, gas is 0
C17_Witness ==
    /\ vehicle.step = 2
    /\ vehicle.gyro_y = -90 /\ vehicle.brake = (ONE * 8) \div 10 /\ vehicle.gas = 0

\* ------------------------------------------------------------------------
\* C18 - C20: failures and missing data
\* ------------------------------------------------------------------------
\* C18: no run of the game callback ends in an exception that nothing
\* handles.
C18_NoTickFails == call.kind # "raised"

\* C19: a game tick at which the gyroscope's latest Y and Z sample cannot
\* both be read does not fail: it reports that it waits for data (for the
\* gyroscope's, once a focus channel has enough samples), fires no shot and
\* leaves score and shot_number as they are.
C19_NoGyroTickWaits ==
    [][(IntervalTick /\ OnGameTab /\ NoGyroData) =>
          /\ call'.kind \in {"waiting_eeg", "waiting_gyro"}
          /\ ~NoFocusData => status'.text = "Waiting for Gyro data..."
          /\ NoFocusData => status'.text = "Waiting for EEG data..."
          /\ ~call'.shot_fired
          /\ game_state'.score = game_state.score
          /\ Started(game_state') <=> Started(game_state)
          /\ Started(game_state) => game_state'.shot_number = game_state.shot_number]_vars

\* a tick of a started game has waited for the gyroscope, whose Y deque
\* holds a sample that its Z deque does not hold yet
C19_Witness ==
    /\ Started(game_state)
    /\ call.kind = "waiting_gyro"
    /\ status.text = "Waiting for Gyro data..."
    /\ Len(buffers["Gyroscope"]["Y"]) = 1 /\ Len(buffers["Gyroscope"]["Z"]) = 0

\* C20: the deques of a stream whose inlet is None stay empty, whatever is
\* pushed to the other streams, and a game tick that needs that stream
\* reports that it waits for data and does not fail.
C20_MissingStreamStaysEmpty ==
    /\ [](\A name \in StreamSet : ~inlets[name] =>
             /\ timestamps[name] = <<>>
             /\ \A key \in KeySet(name) : buffers[name][key] = <<>>)
    /\ [][(IntervalTick /\ OnGameTab /\ ~inlets["EEG"]) =>
             /\ call'.kind = "waiting_eeg"
             /\ status'.text = "Waiting for EEG data..."]_vars
    /\ [][(IntervalTick /\ OnGameTab /\ inlets["EEG"] /\ ~inlets["Gyroscope"]) =>
             /\ call'.kind \in {"waiting_eeg", "waiting_gyro"}
             /\ status'.text \in {"Waiting for EEG data...", "Waiting for Gyro data..."}
             /\ ~NoFocusData => status'.text = "Waiting for Gyro data..."]_vars

\* the gyroscope was not found: EEG and the accelerometer have been filled, a
\* tick of a started game has waited for the gyroscope
C20_Witness ==
    /\ ~inlets["Gyroscope"] /\ inlets["EEG"] /\ inlets["Accelerometer"]
    /\ \A key \in KeySet("Gyroscope") : buffers["Gyroscope"][key] = <<>>
    /\ Len(timestamps["EEG"]) = 3 /\ Len(timestamps["Accelerometer"]) = 1
    /\ Started(game_state)
    /\ call.kind = "waiting_gyro"

\* ------------------------------------------------------------------------
\* C21 - C23: configuration and window lengths
\* ------------------------------------------------------------------------
\* C21: the producer loop and the ticks only ever run under a positive
\* sampling rate and a positive buffer capacity.
C21_NonPositiveCapacityNeverRuns ==
    startup.phase \in {"polling", "serving"} =>
        /\ startup.sampling_rate > 0
        /\ startup.buffer_seconds * startup.sampling_rate > 0

\* C22: the EEG waveform update never fails; a window of fewer than
\* MIN_FILTER_LEN samples is plotted unfiltered, a window of at least that
\* many goes through the selected filters, and the plotted values are as
\* many as the window's.
C22_GraphNeverFails ==
    graph.pc = "done" =>
       LET n == Min2(Len(graph.t_in), Len(graph.y_in)) IN
       /\ graph.fig.outcome # "raised"
       /\ n > 1 =>
            /\ Len(graph.fig.y) = n
            /\ n < MIN_FILTER_LEN => graph.fig.outcome = "plain"
            /\ (n >= MIN_FILTER_LEN /\ graph.filters # {}) => graph.fig.outcome = "filtered"

\* the channels the last run of update_bandpower_graphs has estimated
Estimated == {graph.graphs[i].channel : i \in 1..Len(graph.graphs)}
\* a game tick that reaches the focus loop of lines 162-171
FocusTick == IntervalTick /\ OnGameTab /\ ~Over(game_state)

\* C23 as claimed: both callers estimate a channel exactly when it holds at
\* least 2 * SAMPLING_RATE samples.
C23_EstimatedIffTwoSeconds ==
    /\ [][update_bandpower_graphs =>
            \A ch \in SeqToSet(EEG_CHANNELS) :
               (\E i \in 1..Len(graph'.graphs) : graph'.graphs[i].channel = ch)
                  <=> Len(buffers["EEG"][ch]) >= 2 * SAMPLING_RATE]_vars
    /\ [][FocusTick =>
            (call'.kind = "waiting_eeg" <=>
               \A ch \in focus_channels :
                  Len(buffers["EEG"][ch]) < 2 * SAMPLING_RATE)]_vars

\* C23 amended: the estimator only sees windows of at least
\* 2 * SAMPLING_RATE samples; both callers estimate a channel exactly when
\* it holds more than 2 * SAMPLING_RATE samples, so a channel holding
\* exactly two seconds of samples is skipped like a shorter one.
C23_EstimatedIffMoreThanTwoSeconds ==
    /\ [](graph.pc = "bands" =>
            \A i \in 1..Len(graph.graphs) :
               graph.graphs[i].powers.samples >= 2 * SAMPLING_RATE)
    /\ [][update_bandpower_graphs =>
            \A ch \in SeqToSet(EEG_CHANNELS) :
               (\E i \in 1..Len(graph'.graphs) : graph'.graphs[i].channel = ch)
                  <=> Len(buffers["EEG"][ch]) > 2 * SAMPLING_RATE]_vars
    /\ [][FocusTick =>
            (call'.kind = "waiting_eeg" <=>
               \A ch \in focus_channels :
                  Len(buffers["EEG"][ch]) <= 2 * SAMPLING_RATE)]_vars

\* in the middle of the third push: TP9 holds more than two seconds of
\* samples and has been estimated, AF7 holds exactly two seconds and has not,
\* and a game tick has waited for EEG data
C23_Witness ==
    /\ graph.pc = "bands"
    /\ Estimated = {"TP9"}
    /\ Len(buffers["EEG"]["AF7"]) = 2 * SAMPLING_RATE
    /\ Len(buffers["EEG"]["AF8"]) = 2 * SAMPLING_RATE
    /\ call.kind = "waiting_eeg"

\* ------------------------------------------------------------------------
\* C24: the order of the scan
\* ------------------------------------------------------------------------
\* detect_blink with the two frontal channels examined in the other order
ReverseDetect(eeg_buffer, current_time, last_blink_time) ==
    IF Refractory(current_time, last_blink_time)
    THEN [fired |-> FALSE, time |-> last_blink_time]
    ELSE ScanChannels(<<"AF8", "AF7">>, eeg_buffer, current_time, last_blink_time)

\* C24: whatever AF7 and AF8 hold (too few samples included), whatever
\* last_blink_time and now are, the detector returns the same fired flag and
\* the same updated last_blink_time as a scan of AF8 before AF7 would, and
\* that is what a tick stores.
C24_ScanOrderIrrelevant ==
    /\ [](detect_blink(buffers["EEG"], now, game_state.last_blink_time)
            = ReverseDetect(buffers["EEG"], now, game_state.last_blink_time))
    /\ [][DetectTick =>
            LET r == ReverseDetect(buffers["EEG"], now, game_state.last_blink_time) IN
            /\ call'.blinked = r.fired
            /\ game_state'.last_blink_time = r.time]_vars

\* a tick has fired at "now" on a spike that only AF8 shows, AF7 holding too
\* few samples to be examined
C24_Witness ==
    /\ Len(buffers["EEG"]["AF7"]) < MIN_BLINK_SAMPLES
    /\ ChannelSpike(buffers["EEG"]["AF8"])
    /\ call.blinked
    /\ game_state.last_blink_time = now

\* ------------------------------------------------------------------------
\* C25 - C30: the course of a game
\* ------------------------------------------------------------------------
\* C25: until a start / reset command has been handled the store keeps the
\* value the layout gave it, whatever ticks have run.
C25_NothingBeforeStart == ~Started(game_state) => game_state = InitialStore

\* a game just started on the game tab, the focus channels and the gyroscope
\* holding enough data, the producer going on; nobody clicks Start again
PlayInit ==
    /\ inlets = [name \in StreamSet |-> TRUE]
    /\ source = [name \in StreamSet |-> IF name = "EEG" THEN <<Q, S8>> ELSE <<>>]
    /\ buffers = [name \in StreamSet |-> [key \in KeySet(name) |->
                     [i \in 1..Len(Delivered(name)) |->
                         Delivered(name)[i][KeyIndex(name, key)]]]]
    /\ timestamps = [name \in StreamSet |-> [i \in 1..Len(Delivered(name)) |-> i - 1]]
    /\ pushed = [name \in StreamSet |-> [i \in 1..Len(Delivered(name)) |->
                    [sample |-> Delivered(name)[i], ts |-> i - 1]]]
    /\ appended = [name \in StreamSet |->
                      [key \in KeySet(name) \cup {"ts"} |-> Len(Delivered(name))]]
    /\ loop = Idle
    /\ now = StartTime
    /\ active_tab = "game-tab"
    /\ status = NoStatus
    /\ call = [kind |-> "none", blinked |-> FALSE, expired |-> FALSE,
               shot_fired |-> FALSE, points |-> 0, torn |-> FALSE]
    /\ \E t \in {0, StartTime} : game_state = NewGame(t)
    /\ NoHistory
    /\ vehicle = VehicleStart
    /\ startup = Serving
    /\ graph = NoGraph

PlayTick == IntervalTick /\ UNCHANGED <<histVars, sideVars>>

PlayNext ==
    \/ stream_loop /\ UNCHANGED <<histVars, sideVars>>
    \/ Clock /\ UNCHANGED <<histVars, sideVars>>
    \/ PlayTick

\* the interval has a tick to deliver to a game that is not over
TickDue ==
    /\ ~Over(game_state)
    /\ game_state.shot_timer - UPDATE_INTERVAL >= - MaxOverdue

\* dcc.Interval fires every UPDATE_INTERVAL_MS for as long as the page is
\* open: weak fairness of the tick, its enabling condition written out
PlayFairness == ([]<>(~TickDue)) \/ ([]<><<PlayTick>>_vars)

PlaySpec == PlayInit /\ [][PlayNext]_vars /\ PlayFairness

\* the ticks a game can still take: those of the running shot_timer and a
\* full timer for every shot after the current one
TicksPerShot == GAME_DURATION_S \div UPDATE_INTERVAL
TicksLeft(gs) ==
    IF Over(gs) THEN 0
    ELSE (MAX_SHOTS - gs.shot_number - 1) * TicksPerShot + gs.shot_timer \div UPDATE_INTERVAL

\* C26: with the game tab open, no reset and data on every tick, a started
\* game reaches shot_number = MAX_SHOTS; a game that is not over has between
\* 1 and MAX_SHOTS * TicksPerShot ticks left and every tick takes at least
\* one of them, so the game is over after MAX_SHOTS * TicksPerShot ticks at
\* the latest.
C26_GameEnds ==
    /\ Started(game_state) ~> (Started(game_state) /\ game_state.shot_number = MAX_SHOTS)
    /\ [](Started(game_state))
    /\ [](~Over(game_state) => TicksLeft(game_state) \in 1..(MAX_SHOTS * TicksPerShot))
    /\ [][(IntervalTick /\ ~Over(game_state)) =>
             /\ call'.kind = "played"
             /\ TicksLeft(game_state') < TicksLeft(game_state)]_vars

\* the game is over on a last shot that the expired timer has forced, no
\* shot having scored
C26_Witness ==
    /\ Over(game_state)
    /\ call.shot_fired /\ call.expired /\ ~call.blinked
    /\ game_state.score = 0

\* C27: every point of a plotted EEG trace pairs the value of a pushed
\* sample with that sample's timestamp.
C27_PointsPairValueWithItsTime ==
    (graph.pc = "done" /\ graph.fig.outcome = "plain") =>
        \A i \in 1..Len(graph.fig.y) :
            graph.fig.y[i] = PushedValues("EEG", graph.channel)[graph.fig.t[i] + 1]

\* C28: an interval tick on another tab than the game tab changes nothing
\* of the game: the stored game state and the status stay as they are, no
\* blink is consumed and no shot fires.
C28_OtherTabPauses ==
    [][(IntervalTick /\ ~OnGameTab) =>
          /\ game_state' = game_state
          /\ status' = status
          /\ call'.kind = "no_update"
          /\ ~call'.blinked /\ ~call'.shot_fired]_vars

\* a tick has passed a started game by on the band tab, its timer running
\* and a blink ready to be detected
C28_Witness ==
    /\ ~OnGameTab
    /\ call.kind = "no_update"
    /\ Started(game_state) /\ ~Over(game_state)
    /\ game_state.shot_timer < GAME_DURATION_S
    /\ SpikeInWindow
    /\ ~Refractory(now, game_state.last_blink_time)

\* the most a shot scores (line 211)
MAX_POINTS == 100

\* C29: the score of a started game lies between 0 and MAX_POINTS for every
\* shot fired, and only a start / reset command makes it smaller.
C29_ScoreBounded ==
    /\ [](Started(game_state) =>
            /\ 0 <= game_state.score
            /\ game_state.score <= MAX_POINTS * game_state.shot_number)
    /\ [][game_state'.score < game_state.score => StartGame]_vars
    /\ [][IntervalTick => game_state'.score >= game_state.score]_vars

\* a blink shot has hit the inner ring after a shot that scored nothing
C29_Witness ==
    /\ Started(game_state)
    /\ game_state.shot_number = 2
    /\ game_state.score = MAX_POINTS
    /\ call.shot_fired /\ call.points = MAX_POINTS

\* C30 as claimed: the state that a tick of a started game that is not over
\* stores has 0 < shot_timer <= GAME_DURATION_S.
C30_TimerPositiveAfterTick ==
    [][GameTick =>
          /\ 0 < game_state'.shot_timer
          /\ game_state'.shot_timer <= GAME_DURATION_S]_vars

\* C30 amended: a tick of a started game that is not over stores
\* 0 < shot_timer <= GAME_DURATION_S when it gets to the shot step (an
\* expired timer fires the shot and is reset in that tick); a tick that ends
\* waiting for data stores the timer one interval lower and fires nothing,
\* so the timer stays at or below zero for as long as the data are missing.
C30_TimerPositiveAfterPlayedTick ==
    /\ [][(GameTick /\ call'.kind = "played") =>
             /\ 0 < game_state'.shot_timer
             /\ game_state'.shot_timer <= GAME_DURATION_S
             /\ game_state.shot_timer - UPDATE_INTERVAL <= 0 =>
                   (call'.shot_fired /\ game_state'.shot_timer = GAME_DURATION_S)]_vars
    /\ [][(GameTick /\ call'.kind \in {"waiting_eeg", "waiting_gyro"}) =>
             /\ game_state'.shot_timer = game_state.shot_timer - UPDATE_INTERVAL
             /\ ~call'.shot_fired]_vars
    /\ [](Started(game_state) => game_state.shot_timer <= GAME_DURATION_S)

\* an expired timer has forced a shot without a blink, and is full again
C30_Witness ==
    /\ Started(game_state) /\ ~Over(game_state)
    /\ call.kind = "played" /\ call.shot_fired /\ call.expired /\ ~call.blinked
    /\ game_state.shot_timer = GAME_DURATION_S

\* ------------------------------------------------------------------------
\* C31: the shot index of the status
\* ------------------------------------------------------------------------
\* C31: the "Shot: n/MAX_SHOTS" of the status never shows an n above
\* MAX_SHOTS.
C31_ShownShotWithinMax == status.shot <= MAX_SHOTS

====
